---- MODULE Spec2Model ----
(***************************************************************************)
(* A model of astrbot_plugin_qq_ban (src/main.py): the per-group blacklist *)
(* store (one JSON file per group), the group allow-list gate, and the     *)
(* handlers of the "member left" notice and of the "join request" event.   *)
(* A handler is an async generator: it runs without interruption up to the *)
(* awaited remote call (call_action) and up to each yielded message, and   *)
(* several handlers may be suspended at those points at the same time.     *)
(***************************************************************************)
EXTENDS Integers, Sequences, FiniteSets, TLC

VARIABLES
    config,   \* the plugin's configuration as read by __init__ (never changes)
    files,    \* group id -> contents of <DATA_DIR>/<group id>/blacklist.json
    tasks,    \* handler slot -> the handler running in it, with what it did
    store     \* the last two direct calls of the store's methods (StoreSpec)

vars == <<config, files, tasks, store>>

(***************************************************************************)
(* Bounds of the model.                                                    *)
(***************************************************************************)
MaxTasks == 1     \* handlers that may be in flight at the same time
MaxDigitVal == 7  \* the numeric user ids of the model are 0..MaxDigitVal
MaxConcurrent == 3  \* handlers of one batch of interleaved events (ConcSpec)

(***************************************************************************)
(* Python values of the raw payload: None, an int or a str.                *)
(***************************************************************************)
PyNone == [tag |-> "none", n |-> 0, s |-> ""]
PyInt(n) == [tag |-> "int", n |-> n, s |-> ""]
PyStr(s) == [tag |-> "str", n |-> 0, s |-> s]

\* bool(v): None, 0 and "" are falsy.
Truthy(v) ==
    \/ v.tag = "int" /\ v.n # 0
    \/ v.tag = "str" /\ v.s # ""

\* str(v)
Str(v) ==
    IF v.tag = "int" THEN ToString(v.n)
    ELSE IF v.tag = "str" THEN v.s
    ELSE "None"

\* a or b
PyOr(a, b) == IF Truthy(a) THEN a ELSE b

\* str.strip() on the strings of the model.
Strip(s) ==
    CASE s = " 100 " -> "100"
      [] s = " 100" -> "100"
      [] s = " " -> ""
      [] OTHER -> s

\* str.isdigit() on the strings of the model: the decimal numerals.
IsDigit(s) == \E n \in 0..MaxDigitVal : ToString(n) = s

(***************************************************************************)
(* The strings of the model.                                               *)
(***************************************************************************)
\* The user ids the events carry once converted by str(); in Python's order
\* of str (by code point: a numeral sorts before a name).
UidOrder == <<"7", "bob">>
UserIds == {UidOrder[i] : i \in DOMAIN UidOrder}

\* The non-empty group ids the events carry once converted by str().
GroupIds == {"100", "200"}

\* sorted(members) for a set of user ids.
Sorted(members) == SelectSeq(UidOrder, LAMBDA u : u \in members)

Range(seq) == {seq[i] : i \in DOMAIN seq}

(***************************************************************************)
(* The blacklist file of a group: absent, holding a JSON array (data is    *)
(* what json.load gives: a list of Python values), or holding text that    *)
(* json.load rejects (an interrupted dump leaves a proper prefix of the    *)
(* array's text, which is never valid JSON).                               *)
(***************************************************************************)
Absent == [kind |-> "absent", data |-> <<>>]
Corrupt == [kind |-> "corrupt", data |-> <<>>]
Json(seq) == [kind |-> "json", data |-> seq]

\* The JSON array json.dump writes for a list of str.
JsonStrings(seq) == [i \in DOMAIN seq |-> PyStr(seq[i])]

\* What a load may meet once the file exists: open() or the read inside
\* json.load raising whatever the file holds (I/O error, permission), or not.
ReadOutcomes == {"ok", "read_error"}

\* What the load met: it returns before opening when the file does not exist.
LoadMet(fs, group_id, read) ==
    IF fs[group_id].kind = "absent" THEN "none" ELSE read

\* LoadBlacklist failing closed: a file it cannot read or parse bans every
\* user.
LoadBlacklistFailingClosed(fs, group_id, read) ==
    LET f == fs[group_id] IN
    IF f.kind = "absent" THEN {}
    ELSE IF read = "read_error" THEN UserIds
    ELSE IF f.kind = "json" THEN {Str(f.data[i]) : i \in DOMAIN f.data}
    ELSE UserIds

\* _load_blacklist: {str(uid) for uid in data}, or set() when the file does
\* not exist or anything in the try raised.
LoadBlacklist(fs, group_id, read) ==
    LET f == fs[group_id] IN
    IF f.kind = "absent" THEN {}
    ELSE IF read = "read_error" THEN {}
    ELSE IF f.kind = "json" THEN {Str(f.data[i]) : i \in DOMAIN f.data}
    ELSE {}

\* What a save may meet: makedirs raising, open() raising, the dump raising
\* after open(path, "w") truncated the file, or none of these.
WriteOutcomes == {"ok", "mkdir_error", "open_error", "dump_error"}

\* SaveBlacklist writing after what the file holds instead of replacing it.
SaveBlacklistAppending(fs, group_id, members, outcome) ==
    IF outcome = "mkdir_error" THEN [files |-> fs, raised |-> TRUE]
    ELSE IF outcome = "open_error" THEN [files |-> fs, raised |-> FALSE]
    ELSE IF outcome = "dump_error"
        THEN [files |-> [fs EXCEPT ![group_id] = Corrupt], raised |-> FALSE]
    ELSE [files |-> [fs EXCEPT ![group_id] =
                        Json(JsonStrings(Sorted(
                            {Str(fs[group_id].data[i]) : i \in DOMAIN fs[group_id].data}
                            \cup {Str(m) : m \in members})))],
          raised |-> FALSE]

\* _save_blacklist of a collection of Python values: the files afterwards,
\* and whether the call raised.  It writes sorted({str(uid) for uid in members}).
SaveBlacklist(fs, group_id, members, outcome) ==
    IF outcome = "mkdir_error" THEN [files |-> fs, raised |-> TRUE]
    ELSE IF outcome = "open_error" THEN [files |-> fs, raised |-> FALSE]
    ELSE IF outcome = "dump_error"
        THEN [files |-> [fs EXCEPT ![group_id] = Corrupt], raised |-> FALSE]
    ELSE [files |-> [fs EXCEPT ![group_id] =
                        Json(JsonStrings(Sorted({Str(m) : m \in members})))],
          raised |-> FALSE]

\* The set of str that _add_to_blacklist hands to _save_blacklist.
StrSet(members) == {PyStr(m) : m \in members}

\* AddToBlacklist saving the members it loaded, without the new one.
AddToBlacklistWithoutAdd(fs, group_id, user_id, read, outcome) ==
    LET members == LoadBlacklist(fs, group_id, read) IN
    IF user_id \in members
        THEN [files |-> fs, result |-> FALSE, raised |-> FALSE, saved |-> FALSE]
    ELSE LET s == SaveBlacklist(fs, group_id, StrSet(members), outcome) IN
         [files |-> s.files, result |-> ~s.raised, raised |-> s.raised,
          saved |-> TRUE]

\* AddToBlacklist without the membership test.
AddToBlacklistWithoutTest(fs, group_id, user_id, read, outcome) ==
    LET members == LoadBlacklist(fs, group_id, read)
        s == SaveBlacklist(fs, group_id, StrSet(members \cup {user_id}), outcome)
    IN
    [files |-> s.files, result |-> ~s.raised, raised |-> s.raised,
     saved |-> TRUE]

\* AddToBlacklist saving the new member alone, without the members it loaded.
AddToBlacklistOnlyNew(fs, group_id, user_id, read, outcome) ==
    LET members == LoadBlacklist(fs, group_id, read) IN
    IF user_id \in members
        THEN [files |-> fs, result |-> FALSE, raised |-> FALSE, saved |-> FALSE]
    ELSE LET s == SaveBlacklist(fs, group_id, StrSet({user_id}), outcome) IN
         [files |-> s.files, result |-> ~s.raised, raised |-> s.raised,
          saved |-> TRUE]

\* _add_to_blacklist: the files afterwards, the value returned, whether the
\* call raised, and whether it came to save.
AddToBlacklist(fs, group_id, user_id, read, outcome) ==
    LET members == LoadBlacklist(fs, group_id, read) IN
    IF user_id \in members
        THEN [files |-> fs, result |-> FALSE, raised |-> FALSE, saved |-> FALSE]
    ELSE LET s == SaveBlacklist(fs, group_id, StrSet(members \cup {user_id}),
                                outcome) IN
         [files |-> s.files, result |-> ~s.raised, raised |-> s.raised,
          saved |-> TRUE]

\* InBlacklist finding nobody.
InBlacklistNobody(fs, group_id, user_id, read) == FALSE

\* _in_blacklist
InBlacklist(fs, group_id, user_id, read) ==
    user_id \in LoadBlacklist(fs, group_id, read)

(***************************************************************************)
(* The configuration (__init__).                                           *)
(***************************************************************************)
\* group_whitelist: {str(gid).strip() for gid in <configured list> if gid}
GroupWhitelist(raw_list) ==
    {Strip(Str(raw_list[i])) : i \in {j \in DOMAIN raw_list : Truthy(raw_list[j])}}

RejectReason == "blacklisted member, join refused"

\* (enable_group_whitelist, group_whitelist as configured)
GateChoices ==
    { <<TRUE, <<>> >>,
      <<TRUE, <<PyStr(" 100 "), PyStr("")>> >>,
      <<FALSE, <<PyInt(200)>> >> }

Configs ==
    { [enforce_whitelist |-> g[1], group_whitelist |-> GroupWhitelist(g[2]),
       notice_enabled |-> n, auto_approve_enabled |-> a,
       reject_reason |-> RejectReason] :
         g \in GateChoices, n \in BOOLEAN, a \in BOOLEAN }

\* GroupAllowed taking an empty allow-list to allow every group.
GroupAllowedWhenListEmpty(cfg, group_id) ==
    IF group_id = "" THEN FALSE
    ELSE IF ~cfg.enforce_whitelist THEN TRUE
    ELSE IF cfg.group_whitelist = {} THEN TRUE
    ELSE group_id \in cfg.group_whitelist

\* GroupAllowed trimming the group id before it looks it up.
GroupAllowedTrimming(cfg, group_id) ==
    IF group_id = "" THEN FALSE
    ELSE IF ~cfg.enforce_whitelist THEN TRUE
    ELSE Strip(group_id) \in cfg.group_whitelist

\* _group_allowed
GroupAllowed(cfg, group_id) ==
    IF group_id = "" THEN FALSE
    ELSE IF ~cfg.enforce_whitelist THEN TRUE
    ELSE group_id \in cfg.group_whitelist

(***************************************************************************)
(* The events (AstrMessageEvent): the raw payload's keys that the plugin   *)
(* reads, the enclosing message's group id, and what                       *)
(* _process_group_request asks of the event object.                        *)
(***************************************************************************)
Event(dict, post, notice, request, gid, mgid, uid, flag, sub, platform, typed) ==
    [raw_is_dict |-> dict, post_type |-> post, notice_type |-> notice,
     request_type |-> request, group_id |-> gid, msg_group_id |-> mgid,
     user_id |-> uid, flag |-> flag, sub_type |-> sub,
     platform_name |-> platform, is_aiocqhttp_event |-> typed]

NoEvent ==
    Event(FALSE, "", "", "", PyNone, "", PyNone, PyNone, PyNone, "", FALSE)

\* (raw group_id, message_obj.group_id)
GroupFields ==
    { <<PyNone, "">>, <<PyNone, "100">>, <<PyInt(100), "">>,
      <<PyStr("200"), "100">> }

UserFields == {PyNone, PyInt(7), PyStr("bob")}

\* (group fields, raw user_id): every form of the group id with user 7, and
\* every form of the user id with group 100.
SenderFields ==
    { gu \in GroupFields \X UserFields :
        gu[2] = PyInt(7) \/ gu[1] = <<PyInt(100), "">> }

LeaveEvents ==
    { Event(TRUE, "notice", "group_decrease", "", gu[1][1], gu[1][2], gu[2],
            PyNone, PyNone, "aiocqhttp", TRUE) : gu \in SenderFields }

\* Requests with a flag, on the platform whose API the plugin can call.
PlainRequests ==
    { Event(TRUE, "request", "", "group", gu[1][1], gu[1][2], gu[2],
            PyStr("f1"), PyNone, "aiocqhttp", TRUE) : gu \in SenderFields }

\* Requests of user 7 for group 100 that lack the flag, are invitations, or arrive on
\* an event object whose API the plugin cannot call.
\* (raw flag, raw sub_type, platform name, isinstance(event, AiocqhttpMessageEvent))
RequestFields ==
    { <<PyNone, PyNone, "aiocqhttp", TRUE>>,
      <<PyStr("f1"), PyStr("invite"), "aiocqhttp", TRUE>>,
      <<PyStr("f1"), PyNone, "aiocqhttp", FALSE>>,
      <<PyStr("f1"), PyNone, "telegram", FALSE>> }

OtherRequests ==
    { Event(TRUE, "request", "", "group", PyInt(100), "", PyInt(7),
            r[1], r[2], r[3], r[4]) : r \in RequestFields }

RequestEvents == PlainRequests \cup OtherRequests

IgnoredEvents ==
    { Event(FALSE, "", "", "", PyNone, "100", PyNone, PyNone, PyNone,
            "aiocqhttp", TRUE),
      Event(TRUE, "notice", "group_increase", "", PyInt(100), "", PyInt(7),
            PyNone, PyNone, "aiocqhttp", TRUE),
      Event(TRUE, "request", "", "friend", PyNone, "", PyInt(7),
            PyStr("f1"), PyNone, "aiocqhttp", TRUE) }

Events == LeaveEvents \cup RequestEvents \cup IgnoredEvents

\* handle_group_events: which handler the event goes to.
Classify(ev) ==
    IF ~ev.raw_is_dict THEN "ignore"
    ELSE IF ev.post_type = "notice" /\ ev.notice_type = "group_decrease"
        THEN "leave"
    ELSE IF ev.post_type = "request" /\ ev.request_type = "group"
        THEN "request"
    ELSE "ignore"

\* EventGroupId without the enclosing message's group id.
EventGroupIdWithoutFallback(ev) == Str(PyOr(ev.group_id, PyStr("")))

\* group_id = str(raw.get("group_id") or getattr(event.message_obj, "group_id", ""))
EventGroupId(ev) == Str(PyOr(ev.group_id, PyStr(ev.msg_group_id)))

\* EventUserId without the default for a missing user id: str(None).
EventUserIdWithoutDefault(ev) == Str(ev.user_id)

\* user_id = str(raw.get("user_id") or "")
EventUserId(ev) == Str(PyOr(ev.user_id, PyStr("")))

\* sub_type = raw.get("sub_type", "add")
EventSubType(ev) == IF ev.sub_type.tag = "none" THEN "add" ELSE Str(ev.sub_type)

\* _format_member
FormatMember(user_id) ==
    IF IsDigit(user_id) THEN "[CQ:at,qq=" \o user_id \o "]" ELSE user_id

\* The messages a handler yields: the leave notice (_render_leave_notice with
\* the default template), the rejection notice and the approval notice.
Notice(kind, user_id) == [notice |-> kind, member |-> FormatMember(user_id)]

(***************************************************************************)
(* A handler slot: where the handler stands (pc) and what it has done.     *)
(*   pc       "idle"          no handler in the slot                       *)
(*            "await_reject"  suspended in call_action(approve=False)      *)
(*            "await_approve" suspended in call_action(approve=True)       *)
(*            "yielded"       suspended at a yielded message               *)
(*            "done"          returned                                     *)
(*            "raised"        ended by an exception that left the handler  *)
(*                            (a failed makedirs, or the await interrupted)*)
(*   listed   what _in_blacklist returned (request handler)                *)
(*   added    what _add_to_blacklist returned (leave handler)              *)
(*   read     what the load of the blacklist met, "none" when the handler  *)
(*            did not come to open the file                                *)
(*   write    what the save of _add_to_blacklist met, "none" without save  *)
(*   calls    the calls of _process_group_request, in order                *)
(*   api      the payloads given to call_action, in order                  *)
(*   success  the values _process_group_request returned, in order         *)
(*   msgs     the messages yielded, in order                               *)
(***************************************************************************)
Task(pc, ev, listed, added, write, calls, api, success, msgs) ==
    [pc |-> pc, ev |-> ev, listed |-> listed, added |-> added, read |-> "none",
     write |-> write, calls |-> calls, api |-> api, success |-> success,
     msgs |-> msgs]

IdleTask == Task("idle", NoEvent, FALSE, FALSE, "none", <<>>, <<>>, <<>>, <<>>)

Slots == DOMAIN tasks

NoReason == "<no reason>"

\* The arguments of one call of _process_group_request.
Call(flag, sub_type, approve) ==
    [flag |-> flag, sub_type |-> sub_type, approve |-> approve]

\* Payload without the reason of a rejection.
PayloadWithoutReason(cfg, flag, sub_type, approve) ==
    [flag |-> flag, sub_type |-> sub_type, approve |-> approve,
     reason |-> NoReason]

\* The payload _process_group_request builds for set_group_add_request.
Payload(cfg, flag, sub_type, approve) ==
    [flag |-> flag, sub_type |-> sub_type, approve |-> approve,
     reason |-> IF approve THEN NoReason ELSE cfg.reject_reason]

\* _process_group_request up to its awaited call: the two checks that make it
\* return False at once.
AdapterSupported(ev) ==
    IF ev.platform_name # "aiocqhttp" THEN FALSE
    ELSE IF ~ev.is_aiocqhttp_event THEN FALSE
    ELSE TRUE

\* HandleGroupDecrease yielding its notice whether or not the user was added.
HandleGroupDecreaseNoticeAlways(cfg, fs, ev, read, outcome) ==
    LET group_id == EventGroupId(ev)
        user_id == EventUserId(ev)
        dropped == [files |-> fs,
                    task |-> Task("done", ev, FALSE, FALSE, "none",
                                  <<>>, <<>>, <<>>, <<>>)]
    IN
    IF group_id = "" \/ user_id = "" THEN dropped
    ELSE IF ~GroupAllowed(cfg, group_id) THEN dropped
    ELSE
        LET r == AddToBlacklist(fs, group_id, user_id, read, outcome)
            write == IF r.saved THEN outcome ELSE "none"
            Loaded(task) == [task EXCEPT !.read = LoadMet(fs, group_id, read)]
        IN
        IF r.raised
            THEN [files |-> r.files,
                  task |-> Loaded(Task("raised", ev, FALSE, FALSE, write,
                                <<>>, <<>>, <<>>, <<>>))]
        ELSE IF cfg.notice_enabled
            THEN [files |-> r.files,
                  task |-> Loaded(Task("yielded", ev, FALSE, r.result, write,
                                <<>>, <<>>, <<>>,
                                <<Notice("leave", user_id)>>))]
        ELSE [files |-> r.files,
              task |-> Loaded(Task("done", ev, FALSE, r.result, write,
                            <<>>, <<>>, <<>>, <<>>))]

\* _handle_group_decrease, whole (its only suspension is the yielded notice).
HandleGroupDecrease(cfg, fs, ev, read, outcome) ==
    LET group_id == EventGroupId(ev)
        user_id == EventUserId(ev)
        dropped == [files |-> fs,
                    task |-> Task("done", ev, FALSE, FALSE, "none",
                                  <<>>, <<>>, <<>>, <<>>)]
    IN
    IF group_id = "" \/ user_id = "" THEN dropped
    ELSE IF ~GroupAllowed(cfg, group_id) THEN dropped
    ELSE
        LET r == AddToBlacklist(fs, group_id, user_id, read, outcome)
            write == IF r.saved THEN outcome ELSE "none"
            Loaded(task) == [task EXCEPT !.read = LoadMet(fs, group_id, read)]
        IN
        IF r.raised
            THEN [files |-> r.files,
                  task |-> Loaded(Task("raised", ev, FALSE, FALSE, write,
                                <<>>, <<>>, <<>>, <<>>))]
        ELSE IF r.result /\ cfg.notice_enabled
            THEN [files |-> r.files,
                  task |-> Loaded(Task("yielded", ev, FALSE, r.result, write,
                                <<>>, <<>>, <<>>,
                                <<Notice("leave", user_id)>>))]
        ELSE [files |-> r.files,
              task |-> Loaded(Task("done", ev, FALSE, r.result, write,
                            <<>>, <<>>, <<>>, <<>>))]

\* _handle_group_request up to its first suspension (the awaited call_action,
\* or the yielded notice when _process_group_request returned at once).
HandleGroupRequest(cfg, fs, ev, read) ==
    LET group_id == EventGroupId(ev)
        user_id == EventUserId(ev)
        flag == ev.flag
        sub_type == EventSubType(ev)
        dropped == Task("done", ev, FALSE, FALSE, "none", <<>>, <<>>, <<>>, <<>>)
        Loaded(task) == [task EXCEPT !.read = LoadMet(fs, group_id, read)]
    IN
    IF ~(group_id # "" /\ user_id # "" /\ Truthy(flag)) THEN dropped
    ELSE IF ~GroupAllowed(cfg, group_id) THEN dropped
    ELSE IF InBlacklist(fs, group_id, user_id, read) THEN
        IF AdapterSupported(ev)
            THEN Loaded(Task("await_reject", ev, TRUE, FALSE, "none",
                      <<Call(flag, sub_type, FALSE)>>,
                      <<Payload(cfg, flag, sub_type, FALSE)>>, <<>>, <<>>))
        ELSE IF cfg.notice_enabled
            THEN Loaded(Task("yielded", ev, TRUE, FALSE, "none",
                      <<Call(flag, sub_type, FALSE)>>, <<>>, <<FALSE>>,
                      <<Notice("reject", user_id)>>))
        ELSE Loaded(Task("done", ev, TRUE, FALSE, "none",
                  <<Call(flag, sub_type, FALSE)>>, <<>>, <<FALSE>>, <<>>))
    ELSE IF cfg.auto_approve_enabled THEN
        IF AdapterSupported(ev)
            THEN Loaded(Task("await_approve", ev, FALSE, FALSE, "none",
                      <<Call(flag, sub_type, TRUE)>>,
                      <<Payload(cfg, flag, sub_type, TRUE)>>, <<>>, <<>>))
        ELSE Loaded(Task("done", ev, FALSE, FALSE, "none",
                  <<Call(flag, sub_type, TRUE)>>, <<>>, <<FALSE>>, <<>>))
    ELSE Loaded(dropped)

\* AfterCallAction with the rejection notice made to depend on the call's
\* success, as the approval notice does.
AfterCallActionRejectNoticeOnSuccess(cfg, task, ok) ==
    LET user_id == EventUserId(task.ev)
        returned == [task EXCEPT !.success = Append(@, ok)]
        kind == IF task.pc = "await_reject" THEN "reject" ELSE "approve"
    IN
    IF ok /\ cfg.notice_enabled
        THEN [returned EXCEPT !.pc = "yielded",
                              !.msgs = Append(@, Notice(kind, user_id))]
    ELSE [returned EXCEPT !.pc = "done"]

\* AfterCallAction with the approval notice emitted whatever the call did, as
\* the rejection notice is.
AfterCallActionApproveNoticeAlways(cfg, task, ok) ==
    LET user_id == EventUserId(task.ev)
        returned == [task EXCEPT !.success = Append(@, ok)]
        kind == IF task.pc = "await_reject" THEN "reject" ELSE "approve"
    IN
    IF cfg.notice_enabled
        THEN [returned EXCEPT !.pc = "yielded",
                              !.msgs = Append(@, Notice(kind, user_id))]
    ELSE [returned EXCEPT !.pc = "done"]

\* AfterCallAction calling call_action a second time when the first raised.
AfterCallActionRetrying(cfg, task, ok) ==
    LET user_id == EventUserId(task.ev)
        returned == [task EXCEPT !.success = Append(@, ok),
                                 !.api = IF ok THEN @ ELSE Append(@, @[1])]
    IN
    IF task.pc = "await_reject" THEN
        IF cfg.notice_enabled
            THEN [returned EXCEPT !.pc = "yielded",
                                  !.msgs = Append(@, Notice("reject", user_id))]
        ELSE [returned EXCEPT !.pc = "done"]
    ELSE
        IF ok /\ cfg.notice_enabled
            THEN [returned EXCEPT !.pc = "yielded",
                                  !.msgs = Append(@, Notice("approve", user_id))]
        ELSE [returned EXCEPT !.pc = "done"]

\* The handler after call_action returned (ok) or raised (~ok):
\* _process_group_request returns ok, and _handle_group_request goes on to
\* its notice.
AfterCallAction(cfg, task, ok) ==
    LET user_id == EventUserId(task.ev)
        returned == [task EXCEPT !.success = Append(@, ok)]
    IN
    IF task.pc = "await_reject" THEN
        IF cfg.notice_enabled
            THEN [returned EXCEPT !.pc = "yielded",
                                  !.msgs = Append(@, Notice("reject", user_id))]
        ELSE [returned EXCEPT !.pc = "done"]
    ELSE
        IF ok /\ cfg.notice_enabled
            THEN [returned EXCEPT !.pc = "yielded",
                                  !.msgs = Append(@, Notice("approve", user_id))]
        ELSE [returned EXCEPT !.pc = "done"]

(***************************************************************************)
(* The actions.                                                            *)
(***************************************************************************)
Finished(task) == task.pc \in {"done", "raised"}

\* A new handler takes the first idle slot, once the finished ones have been
\* cleared.
CanStart(t) ==
    /\ tasks[t].pc = "idle"
    /\ \A s \in Slots : s < t => tasks[s].pc # "idle"
    /\ \A s \in Slots : ~Finished(tasks[s])

\* handle_group_events on an event that goes to no handler.
StartIgnored(t, ev) ==
    /\ CanStart(t)
    /\ Classify(ev) = "ignore"
    /\ tasks' = [tasks EXCEPT ![t] =
                    Task("done", ev, FALSE, FALSE, "none", <<>>, <<>>, <<>>, <<>>)]
    /\ UNCHANGED <<config, files, store>>

\* handle_group_events on a group_decrease notice.
StartLeave(t, ev, read, outcome) ==
    /\ CanStart(t)
    /\ Classify(ev) = "leave"
    /\ LET r == HandleGroupDecrease(config, files, ev, read, outcome) IN
         /\ tasks' = [tasks EXCEPT ![t] = r.task]
         /\ files' = r.files
    /\ UNCHANGED <<config, store>>

\* handle_group_events on a group request.
StartRequest(t, ev, read) ==
    /\ CanStart(t)
    /\ Classify(ev) = "request"
    /\ tasks' = [tasks EXCEPT ![t] = HandleGroupRequest(config, files, ev, read)]
    /\ UNCHANGED <<config, files, store>>

\* The awaited call_action returns (ok) or raises an Exception (~ok).
CallActionEnds(t, ok) ==
    /\ tasks[t].pc \in {"await_reject", "await_approve"}
    /\ tasks' = [tasks EXCEPT ![t] = AfterCallAction(config, tasks[t], ok)]
    /\ UNCHANGED <<config, files, store>>

\* The await of call_action ends by an exception that is not an Exception
\* (CancelledError when the consuming task is cancelled, KeyboardInterrupt):
\* "except Exception" does not catch it, so it leaves _process_group_request
\* and the handler; nothing after the await runs.
CallActionInterrupted(t) ==
    /\ tasks[t].pc \in {"await_reject", "await_approve"}
    /\ tasks' = [tasks EXCEPT ![t].pc = "raised"]
    /\ UNCHANGED <<config, files, store>>

\* The generator is resumed after a yielded notice: every handler ends there.
Resume(t) ==
    /\ tasks[t].pc = "yielded"
    /\ tasks' = [tasks EXCEPT ![t].pc = "done"]
    /\ UNCHANGED <<config, files, store>>

\* A finished handler is forgotten.
Retire(t) ==
    /\ Finished(tasks[t])
    /\ tasks' = [tasks EXCEPT ![t] = IdleTask]
    /\ UNCHANGED <<config, files, store>>

(***************************************************************************)
(* The store's methods called directly, one after the other (StoreSpec):   *)
(* the last call and the one before it, each with its arguments, what its  *)
(* load and its save met, what it returned, and the group's file when it   *)
(* ended.                                                                  *)
(***************************************************************************)
StoreCall(op, group_id, user_id, members, read, write, raised, returned, after) ==
    [op |-> op, group_id |-> group_id, user_id |-> user_id,
     members |-> members, read |-> read, write |-> write, raised |-> raised,
     returned |-> returned, after |-> after]

\* What a call returned: a set (load), a truth value (add, contains) or
\* nothing (save, or a call that raised).
RetSet(set) == [type |-> "set", set |-> set, bool |-> FALSE]
RetBool(b) == [type |-> "bool", set |-> {}, bool |-> b]
RetNone == [type |-> "none", set |-> {}, bool |-> FALSE]

NoCall == StoreCall("none", "", "", {}, "none", "none", FALSE, RetNone, Absent)

Record(call) == store' = [prev |-> store.last, last |-> call]

\* The collections given to _save_blacklist: empty, of one id and of
\* several, of str and with an int that str() turns into a str.
SaveSets ==
    { {}, {PyStr("bob")}, {PyStr("7"), PyStr("bob")}, {PyInt(7), PyStr("bob")} }

\* _save_blacklist(group_id, members)
StoreSave(group_id, members, outcome) ==
    LET s == SaveBlacklist(files, group_id, members, outcome) IN
    /\ files' = s.files
    /\ Record(StoreCall("save", group_id, "", members, "none", outcome,
                        s.raised, RetNone, s.files[group_id]))
    /\ UNCHANGED <<config, tasks>>

\* _load_blacklist(group_id)
StoreLoad(group_id, read) ==
    /\ Record(StoreCall("load", group_id, "", {},
                        LoadMet(files, group_id, read), "none", FALSE,
                        RetSet(LoadBlacklist(files, group_id, read)),
                        files[group_id]))
    /\ UNCHANGED <<config, files, tasks>>

\* _add_to_blacklist(group_id, user_id)
StoreAdd(group_id, user_id, read, outcome) ==
    LET r == AddToBlacklist(files, group_id, user_id, read, outcome) IN
    /\ files' = r.files
    /\ Record(StoreCall("add", group_id, user_id, {},
                        LoadMet(files, group_id, read),
                        IF r.saved THEN outcome ELSE "none", r.raised,
                        IF r.raised THEN RetNone ELSE RetBool(r.result),
                        r.files[group_id]))
    /\ UNCHANGED <<config, tasks>>

\* _in_blacklist(group_id, user_id)
StoreContains(group_id, user_id, read) ==
    /\ Record(StoreCall("contains", group_id, user_id, {},
                        LoadMet(files, group_id, read), "none", FALSE,
                        RetBool(InBlacklist(files, group_id, user_id, read)),
                        files[group_id]))
    /\ UNCHANGED <<config, files, tasks>>

\* The configuration when the host gives none: the defaults of __init__.
DefaultConfig ==
    [enforce_whitelist |-> TRUE, group_whitelist |-> GroupWhitelist(<<>>),
     notice_enabled |-> TRUE, auto_approve_enabled |-> FALSE,
     reject_reason |-> RejectReason]

\* What a group's file may hold when the plugin starts: nothing, what an
\* earlier save wrote, or what an interrupted save left.
FileContents ==
    {Absent, Corrupt} \cup {Json(JsonStrings(Sorted(m))) : m \in SUBSET UserIds}

StoreInit ==
    /\ config = DefaultConfig
    /\ files \in [GroupIds -> FileContents]
    /\ tasks = [t \in 1..MaxTasks |-> IdleTask]
    /\ store = [prev |-> NoCall, last |-> NoCall]

StoreNext ==
    \/ \E g \in GroupIds, m \in SaveSets, outcome \in WriteOutcomes :
          StoreSave(g, m, outcome)
    \/ \E g \in GroupIds, read \in ReadOutcomes : StoreLoad(g, read)
    \/ \E g \in GroupIds, u \in UserIds, read \in ReadOutcomes,
          outcome \in WriteOutcomes :
          StoreAdd(g, u, read, outcome)
    \/ \E g \in GroupIds, u \in UserIds, read \in ReadOutcomes :
          StoreContains(g, u, read)

StoreSpec == StoreInit /\ [][StoreNext]_vars

(***************************************************************************)
(* _group_allowed called directly (GateSpec), under allow-lists configured *)
(* with padded, empty and numeric entries, on group ids that are empty,    *)
(* padded, listed or not listed.                                           *)
(***************************************************************************)
GateWhitelists ==
    { <<>>,
      <<PyInt(100)>>,
      <<PyStr(" 100 "), PyStr("")>>,
      <<PyInt(0), PyStr("200")>>,
      <<PyStr(" ")>> }

GateConfigs ==
    { [enforce_whitelist |-> e, group_whitelist |-> GroupWhitelist(w),
       notice_enabled |-> TRUE, auto_approve_enabled |-> FALSE,
       reject_reason |-> RejectReason] :
         e \in BOOLEAN, w \in GateWhitelists }

GateGroupIds == {"", "100", " 100", "200", "0", " "}

\* _group_allowed(group_id)
GateCall(group_id) ==
    /\ Record(StoreCall("group_allowed", group_id, "", {}, "none", "none", FALSE,
                        RetBool(GroupAllowed(config, group_id)), Absent))
    /\ UNCHANGED <<config, files, tasks>>

GateInit ==
    /\ config \in GateConfigs
    /\ files = [g \in GroupIds |-> Absent]
    /\ tasks = [t \in 1..MaxTasks |-> IdleTask]
    /\ store = [prev |-> NoCall, last |-> NoCall]

GateNext == \E g \in GateGroupIds : GateCall(g)

GateSpec == GateInit /\ [][GateNext]_vars

Init ==
    /\ config \in Configs
    /\ files = [g \in GroupIds |-> Absent]
    /\ tasks = [t \in 1..MaxTasks |-> IdleTask]
    /\ store = [prev |-> NoCall, last |-> NoCall]

Next ==
    \/ \E t \in Slots, ev \in Events : StartIgnored(t, ev)
    \/ \E t \in Slots, ev \in Events, read \in ReadOutcomes,
          outcome \in WriteOutcomes :
          StartLeave(t, ev, read, outcome)
    \/ \E t \in Slots, ev \in Events, read \in ReadOutcomes :
          StartRequest(t, ev, read)
    \/ \E t \in Slots, ok \in BOOLEAN : CallActionEnds(t, ok)
    \/ \E t \in Slots : CallActionInterrupted(t)
    \/ \E t \in Slots : Resume(t)
    \/ \E t \in Slots : Retire(t)

Spec == Init /\ [][Next]_vars

(***************************************************************************)
(* A batch of events handled as interleaved coroutines (ConcSpec): the     *)
(* host starts a handler per event and keeps every handler, finished or    *)
(* suspended, so that what each of them did can be read when all have      *)
(* completed.  A handler runs from its start to its first suspension in    *)
(* one step; the others' steps come between its suspensions only.          *)
(***************************************************************************)
\* Group 100 allowed and auto-approve enabled (so that a join request is
\* suspended in an approve or in a reject call), notices enabled or not.
ConcConfigs ==
    { [enforce_whitelist |-> TRUE,
       group_whitelist |-> GroupWhitelist(<<PyInt(100)>>),
       notice_enabled |-> n, auto_approve_enabled |-> TRUE,
       reject_reason |-> RejectReason] : n \in BOOLEAN }

\* Leave notices and join requests of the two users for group 100.
ConcEvents ==
    { Event(TRUE, "notice", "group_decrease", "", PyInt(100), "", u,
            PyNone, PyNone, "aiocqhttp", TRUE) : u \in {PyInt(7), PyStr("bob")} }
    \cup
    { Event(TRUE, "request", "", "group", PyInt(100), "", u,
            PyStr("f1"), PyNone, "aiocqhttp", TRUE) : u \in {PyInt(7), PyStr("bob")} }

\* The next handler of the batch takes the first idle slot.
ConcCanStart(t) ==
    /\ tasks[t].pc = "idle"
    /\ \A s \in Slots : s < t => tasks[s].pc # "idle"

\* handle_group_events on a group_decrease notice, other handlers suspended.
ConcStartLeave(t, ev, read, outcome) ==
    /\ ConcCanStart(t)
    /\ Classify(ev) = "leave"
    /\ LET r == HandleGroupDecrease(config, files, ev, read, outcome) IN
         /\ tasks' = [tasks EXCEPT ![t] = r.task]
         /\ files' = r.files
    /\ UNCHANGED <<config, store>>

\* handle_group_events on a group request, other handlers suspended.
ConcStartRequest(t, ev, read) ==
    /\ ConcCanStart(t)
    /\ Classify(ev) = "request"
    /\ tasks' = [tasks EXCEPT ![t] = HandleGroupRequest(config, files, ev, read)]
    /\ UNCHANGED <<config, files, store>>

ConcInit ==
    /\ config \in ConcConfigs
    /\ files = [g \in GroupIds |-> Absent]
    /\ tasks = [t \in 1..MaxConcurrent |-> IdleTask]
    /\ store = [prev |-> NoCall, last |-> NoCall]

ConcNext ==
    \/ \E t \in Slots, ev \in ConcEvents, read \in ReadOutcomes,
          outcome \in WriteOutcomes :
          ConcStartLeave(t, ev, read, outcome)
    \/ \E t \in Slots, ev \in ConcEvents, read \in ReadOutcomes :
          ConcStartRequest(t, ev, read)
    \/ \E t \in Slots, ok \in BOOLEAN : CallActionEnds(t, ok)
    \/ \E t \in Slots : CallActionInterrupted(t)
    \/ \E t \in Slots : Resume(t)

ConcSpec == ConcInit /\ [][ConcNext]_vars

(***************************************************************************)
(* What the properties below speak of.                                     *)
(***************************************************************************)
\* The user ids a file holds as a JSON array.
HeldBy(file) ==
    IF file.kind = "json" THEN {Str(file.data[i]) : i \in DOMAIN file.data}
    ELSE {}

\* The user ids a group's file holds: the group's persisted blacklist.
PersistedSet(fs, group_id) == HeldBy(fs[group_id])

\* A join request with group id, user id and flag.
WellFormedRequest(ev) ==
    /\ Classify(ev) = "request"
    /\ EventGroupId(ev) # ""
    /\ EventUserId(ev) # ""
    /\ Truthy(ev.flag)

\* A leave notice with group id and user id.
WellFormedLeave(ev) ==
    /\ Classify(ev) = "leave"
    /\ EventGroupId(ev) # ""
    /\ EventUserId(ev) # ""

\* The event's group id is not empty and, if the allow-list is enforced, is
\* one of its entries.
InScope(ev) ==
    /\ EventGroupId(ev) # ""
    /\ config.enforce_whitelist => EventGroupId(ev) \in config.group_whitelist

\* The step in which slot t's handler starts.
Starts(t) == tasks[t].pc = "idle" /\ tasks'[t].pc # "idle"

\* A request handler's "listed" says whether the user was in the group's
\* blacklist as the handler loaded it when it started: in the group's file,
\* the read of the file not having failed.
ListedIsMembership ==
    \A t \in Slots :
        LET ev == tasks'[t].ev IN
        Starts(t) /\ WellFormedRequest(ev) /\ InScope(ev)
            => tasks'[t].listed =
                 (/\ EventUserId(ev) \in PersistedSet(files, EventGroupId(ev))
                  /\ tasks'[t].read # "read_error")

\* A well-formed, in-scope join request whose user was in the blacklist.
ListedRequest(task) ==
    /\ task.pc # "idle"
    /\ WellFormedRequest(task.ev)
    /\ InScope(task.ev)
    /\ task.listed

\* A well-formed, in-scope join request whose user was not in the blacklist.
UnlistedRequest(task) ==
    /\ task.pc # "idle"
    /\ WellFormedRequest(task.ev)
    /\ InScope(task.ev)
    /\ ~task.listed

(***************************************************************************)
(* C1: a well-formed, in-scope join request whose user is in the group's   *)
(* blacklist makes the handler call _process_group_request exactly once,   *)
(* with approve=False and the request's flag; the call_action it makes (on *)
(* a platform that has one) carries the configured reject reason; and the  *)
(* handler makes no further call, whatever enable_auto_approve is.         *)
(***************************************************************************)
RejectCallOf(task) ==
    /\ task.calls = <<Call(task.ev.flag, EventSubType(task.ev), FALSE)>>
    /\ task.api =
         IF AdapterSupported(task.ev)
         THEN << [flag |-> task.ev.flag, sub_type |-> EventSubType(task.ev),
                  approve |-> FALSE, reason |-> config.reject_reason] >>
         ELSE <<>>

C1_BlacklistedRequestRejectedOnce ==
    /\ [][ListedIsMembership]_vars
    /\ [](\A t \in Slots : ListedRequest(tasks[t]) => RejectCallOf(tasks[t]))

C1_Witness ==
    \E t \in Slots :
        /\ tasks[t].pc = "done"
        /\ ListedRequest(tasks[t])
        /\ config.auto_approve_enabled
        /\ Len(tasks[t].api) = 1
        /\ tasks[t].api[1].reason = RejectReason

(***************************************************************************)
(* C2: when the handler of a blacklisted user's in-scope join request has  *)
(* returned, it has yielded exactly one rejection notice if notices are    *)
(* enabled and no message if they are not, whether the reject call         *)
(* succeeded, failed or could not be made.                                 *)
(***************************************************************************)
C2_RejectionNoticeWhateverTheCall ==
    /\ [][ListedIsMembership]_vars
    /\ [](\A t \in Slots :
            tasks[t].pc = "done" /\ ListedRequest(tasks[t])
                => tasks[t].msgs =
                     IF config.notice_enabled
                     THEN <<Notice("reject", EventUserId(tasks[t].ev))>>
                     ELSE <<>>)

C2_Witness ==
    \E t \in Slots :
        /\ tasks[t].pc = "done"
        /\ ListedRequest(tasks[t])
        /\ config.notice_enabled
        /\ AdapterSupported(tasks[t].ev)
        /\ tasks[t].success = <<FALSE>>
        /\ Len(tasks[t].msgs) = 1

(***************************************************************************)
(* C3: with auto-approve enabled, when the handler of an in-scope join     *)
(* request whose user is not blacklisted has returned, it has called       *)
(* _process_group_request once with approve=True, and it has yielded one   *)
(* approval notice if that call returned True and notices are enabled, and *)
(* no message otherwise.                                                   *)
(***************************************************************************)
C3_ApprovalNoticeOnlyOnSuccess ==
    /\ [][ListedIsMembership]_vars
    /\ [](\A t \in Slots :
            /\ tasks[t].pc = "done"
            /\ UnlistedRequest(tasks[t])
            /\ config.auto_approve_enabled
            => /\ tasks[t].calls =
                    <<Call(tasks[t].ev.flag, EventSubType(tasks[t].ev), TRUE)>>
               /\ Len(tasks[t].success) = 1
               /\ tasks[t].msgs =
                    IF tasks[t].success[1] /\ config.notice_enabled
                    THEN <<Notice("approve", EventUserId(tasks[t].ev))>>
                    ELSE <<>>)

C3_Witness ==
    \E t \in Slots :
        /\ tasks[t].pc = "done"
        /\ UnlistedRequest(tasks[t])
        /\ config.auto_approve_enabled
        /\ config.notice_enabled
        /\ AdapterSupported(tasks[t].ev)
        /\ tasks[t].success = <<FALSE>>
        /\ tasks[t].msgs = <<>>

(***************************************************************************)
(* C4: after an in-scope, well-formed leave notice for user U in group G   *)
(* has been handled, U is in G's persisted blacklist.                      *)
(***************************************************************************)
C4_LeftUserPersisted ==
    \A t \in Slots :
        tasks[t].pc = "done" /\ WellFormedLeave(tasks[t].ev) /\ InScope(tasks[t].ev)
            => EventUserId(tasks[t].ev)
                 \in PersistedSet(files, EventGroupId(tasks[t].ev))

(***************************************************************************)
(* C4 as amended: when the handler of an in-scope, well-formed leave       *)
(* notice for user U in group G has run _add_to_blacklist and the save of  *)
(* that call, if it made one, did not fail, U is in G's persisted          *)
(* blacklist; when that save failed in open() or in the dump, the handler  *)
(* completes all the same and U is not added to G's persisted blacklist.   *)
(***************************************************************************)
C4_LeftUserPersistedWhenSaved ==
    [][\A t \in Slots :
          LET ev == tasks'[t].ev
              g == EventGroupId(ev)
              u == EventUserId(ev)
          IN
          Starts(t) /\ WellFormedLeave(ev) /\ InScope(ev)
          => /\ tasks'[t].write \in {"ok", "none"}
                  => u \in PersistedSet(files', g)
             /\ tasks'[t].write \in {"open_error", "dump_error"}
                  => /\ tasks'[t].pc \in {"done", "yielded"}
                     /\ u \in PersistedSet(files', g)
                          => u \in PersistedSet(files, g)]_vars

C4_Witness ==
    \E t \in Slots :
        /\ tasks[t].pc = "done"
        /\ WellFormedLeave(tasks[t].ev)
        /\ InScope(tasks[t].ev)
        /\ tasks[t].write = "ok"
        /\ tasks[t].added
        /\ EventUserId(tasks[t].ev)
             \in PersistedSet(files, EventGroupId(tasks[t].ev))

(***************************************************************************)
(* C5: an in-scope leave notice yields exactly one leave-notice message if *)
(* and only if the user was newly inserted into the group's persisted      *)
(* blacklist and notices are enabled; for a user already in the blacklist  *)
(* it yields no message and leaves the blacklist unchanged.                *)
(***************************************************************************)
LeaveNoticeOf(task) == <<Notice("leave", EventUserId(task.ev))>>

C5_LeaveNoticeIffInserted ==
    [][\A t \in Slots :
          LET ev == tasks'[t].ev
              g == EventGroupId(ev)
              u == EventUserId(ev)
          IN
          Starts(t) /\ WellFormedLeave(ev) /\ InScope(ev)
          => /\ tasks'[t].msgs =
                  IF /\ u \notin PersistedSet(files, g)
                     /\ u \in PersistedSet(files', g)
                     /\ config.notice_enabled
                  THEN LeaveNoticeOf(tasks'[t])
                  ELSE <<>>
             /\ u \in PersistedSet(files, g) => files' = files]_vars

(***************************************************************************)
(* C5 as amended: an in-scope leave notice yields exactly one leave-notice *)
(* message if and only if the user was not in the group's blacklist as     *)
(* loaded (in the file, the read not having failed), the save did not      *)
(* raise, and notices are enabled (the save may have failed and been       *)
(* logged only); for a user already in the blacklist as loaded it yields   *)
(* no message and leaves the blacklist unchanged.                          *)
(***************************************************************************)
C5_LeaveNoticeIffNotListedBefore ==
    [][\A t \in Slots :
          LET ev == tasks'[t].ev
              g == EventGroupId(ev)
              u == EventUserId(ev)
              loaded == /\ u \in PersistedSet(files, g)
                        /\ tasks'[t].read # "read_error"
          IN
          Starts(t) /\ WellFormedLeave(ev) /\ InScope(ev)
          => /\ tasks'[t].msgs =
                  IF /\ ~loaded
                     /\ tasks'[t].pc # "raised"
                     /\ config.notice_enabled
                  THEN LeaveNoticeOf(tasks'[t])
                  ELSE <<>>
             /\ loaded => files' = files]_vars

\* A repeated leave notice: the user is in the file, nothing was yielded.
C5_Witness ==
    \E t \in Slots :
        /\ tasks[t].pc = "done"
        /\ WellFormedLeave(tasks[t].ev)
        /\ InScope(tasks[t].ev)
        /\ config.notice_enabled
        /\ ~tasks[t].added
        /\ tasks[t].read = "ok"
        /\ tasks[t].write = "none"
        /\ tasks[t].msgs = <<>>
        /\ EventUserId(tasks[t].ev)
             \in PersistedSet(files, EventGroupId(tasks[t].ev))

(***************************************************************************)
(* C6: handling a leave notice or a join request whose group is out of     *)
(* scope (empty group id, or the allow-list enforced and the group not in  *)
(* it) changes no blacklist file, yields no message and calls neither      *)
(* _process_group_request nor call_action.                                 *)
(***************************************************************************)
C6_OutOfScopeNoEffect ==
    [][\A t \in Slots :
          LET ev == tasks'[t].ev IN
          Starts(t) /\ Classify(ev) \in {"leave", "request"} /\ ~InScope(ev)
          => /\ files' = files
             /\ tasks'[t].pc = "done"
             /\ tasks'[t].msgs = <<>>
             /\ tasks'[t].calls = <<>>
             /\ tasks'[t].api = <<>>]_vars

\* The allow-list is enforced and empty: a well-formed leave notice was
\* dropped.
C6_Witness ==
    \E t \in Slots :
        /\ tasks[t].pc = "done"
        /\ WellFormedLeave(tasks[t].ev)
        /\ config.enforce_whitelist
        /\ config.group_whitelist = {}
        /\ ~InScope(tasks[t].ev)
        /\ files[EventGroupId(tasks[t].ev)] = Absent

(***************************************************************************)
(* C7: two calls in a row of _add_to_blacklist with the same group and     *)
(* user: the second returns False and leaves the group's file as the first *)
(* left it.                                                                *)
(***************************************************************************)
SameAddTwice ==
    /\ store.prev.op = "add"
    /\ store.last.op = "add"
    /\ store.prev.group_id = store.last.group_id
    /\ store.prev.user_id = store.last.user_id

C7_SecondAddReturnsFalse ==
    SameAddTwice
        => /\ store.last.returned = RetBool(FALSE)
           /\ store.last.after = store.prev.after

(***************************************************************************)
(* C7 as amended: two calls in a row of _add_to_blacklist with the same    *)
(* group and user.  The second returns False, and then leaves the group's  *)
(* file as the first left it, if and only if the user is in the file the   *)
(* first call left and the second call's read of it did not fail; this is  *)
(* so whenever the first call's save (if it made one) and the second       *)
(* call's read did not fail.  Otherwise the second call saves again, and   *)
(* returns True unless that save raised.                                   *)
(***************************************************************************)
C7_SecondAddReturnsFalseIffFound ==
    SameAddTwice
        => LET found == /\ store.last.user_id \in HeldBy(store.prev.after)
                        /\ store.last.read # "read_error"
           IN
           /\ store.last.returned = RetBool(FALSE) <=> found
           /\ found => /\ store.last.after = store.prev.after
                       /\ store.last.write = "none"
           /\ ~found => /\ store.last.write # "none"
                        /\ store.last.returned =
                             IF store.last.raised THEN RetNone ELSE RetBool(TRUE)
           /\ /\ ~store.prev.raised
              /\ store.prev.write \in {"ok", "none"}
              /\ store.last.read # "read_error"
              => found

\* The first call inserted the user, the second found the user and returned
\* False.
C7_Witness ==
    /\ SameAddTwice
    /\ store.prev.write = "ok"
    /\ store.prev.returned = RetBool(TRUE)
    /\ store.last.read = "ok"
    /\ store.last.returned = RetBool(FALSE)
    /\ store.last.after = store.prev.after

(***************************************************************************)
(* C8: _save_blacklist(group, set) followed by _load_blacklist(group)      *)
(* returns that set.                                                       *)
(***************************************************************************)
SaveThenLoad ==
    /\ store.prev.op = "save"
    /\ store.last.op = "load"
    /\ store.prev.group_id = store.last.group_id

C8_SaveLoadRoundTrip ==
    SaveThenLoad
        => /\ store.last.returned.type = "set"
           /\ {PyStr(u) : u \in store.last.returned.set} = store.prev.members

(***************************************************************************)
(* C8 as amended: _save_blacklist(group, set) that met no write error,     *)
(* followed by _load_blacklist(group) that met no read error, returns the  *)
(* set of the ids converted by str(): exactly the set saved when its ids   *)
(* are strings.  After a failed write the load returns what the file was   *)
(* left holding, and a failed read returns the empty set.                  *)
(***************************************************************************)
C8_SaveLoadRoundTripOfStrings ==
    SaveThenLoad
        => /\ store.last.returned.type = "set"
           /\ store.prev.write = "ok" /\ store.last.read # "read_error"
                => /\ store.last.returned.set
                        = {Str(m) : m \in store.prev.members}
                   /\ (\A m \in store.prev.members : m.tag = "str")
                        => {PyStr(u) : u \in store.last.returned.set}
                              = store.prev.members
           /\ store.prev.write # "ok" /\ store.last.read # "read_error"
                => store.last.returned.set = HeldBy(store.prev.after)
           /\ store.last.read = "read_error"
                => store.last.returned.set = {}

\* A set of several ids, an int among them, written and read back as strings.
C8_Witness ==
    /\ SaveThenLoad
    /\ store.prev.write = "ok"
    /\ store.last.read = "ok"
    /\ store.prev.members = {PyInt(7), PyStr("bob")}
    /\ store.last.returned = RetSet({"7", "bob"})

(***************************************************************************)
(* C9: a user id that is in a group's persisted blacklist stays in it,     *)
(* whatever events are handled.                                            *)
(***************************************************************************)
C9_BlacklistOnlyGrows ==
    [][\A g \in GroupIds :
          PersistedSet(files, g) \subseteq PersistedSet(files', g)]_vars

(***************************************************************************)
(* C10: after a call of _save_blacklist, whether it succeeded or failed,   *)
(* loading the group's blacklist gives the set the file held before the    *)
(* call or the set given to the call.                                      *)
(***************************************************************************)
C10_SaveIsAtomic ==
    [][store'.last.op = "save" /\ store' # store
          => LoadBlacklist(files', store'.last.group_id, "ok")
               \in { LoadBlacklist(files, store'.last.group_id, "ok"),
                     {Str(m) : m \in store'.last.members} }]_vars

(***************************************************************************)
(* C11: _group_allowed returns False for an empty group id, True for every *)
(* non-empty group id when the allow-list is not enforced, and otherwise   *)
(* True if and only if the group id, trimmed, is one of the trimmed        *)
(* entries of the configured allow-list.                                   *)
(***************************************************************************)
GateCalled == store.last.op = "group_allowed"

C11_GateComparesTrimmed ==
    GateCalled
        => store.last.returned =
             RetBool(IF store.last.group_id = "" THEN FALSE
                     ELSE IF ~config.enforce_whitelist THEN TRUE
                     ELSE Strip(store.last.group_id) \in config.group_whitelist)

(***************************************************************************)
(* C11 as amended: _group_allowed returns False for an empty group id,     *)
(* True for every non-empty group id when the allow-list is not enforced,  *)
(* and otherwise True if and only if the group id exactly as given (not    *)
(* trimmed) is one of the configured entries that are truthy, converted by *)
(* str() and trimmed.                                                      *)
(***************************************************************************)
C11_GateComparesGroupIdAsGiven ==
    GateCalled
        => store.last.returned =
             RetBool(IF store.last.group_id = "" THEN FALSE
                     ELSE IF ~config.enforce_whitelist THEN TRUE
                     ELSE store.last.group_id \in config.group_whitelist)

\* A padded group id refused although its trimmed form is listed, after the
\* same id without padding was let through.
C11_Witness ==
    /\ GateCalled
    /\ config.enforce_whitelist
    /\ store.prev.op = "group_allowed"
    /\ store.prev.group_id = "100"
    /\ store.prev.returned = RetBool(TRUE)
    /\ store.last.group_id = " 100"
    /\ Strip(store.last.group_id) \in config.group_whitelist
    /\ store.last.returned = RetBool(FALSE)

(***************************************************************************)
(* C12: a leave notice or a join request without user id, and a join       *)
(* request without flag, is dropped: the handler returns at once, no       *)
(* blacklist file changes, no message is yielded, and neither              *)
(* _process_group_request nor call_action is called.                       *)
(***************************************************************************)
Malformed(ev) ==
    \/ Classify(ev) \in {"leave", "request"} /\ ev.user_id.tag = "none"
    \/ Classify(ev) = "request" /\ ev.flag.tag = "none"

C12_MalformedDropped ==
    [][\A t \in Slots :
          Starts(t) /\ Malformed(tasks'[t].ev)
          => /\ files' = files
             /\ tasks'[t].pc = "done"
             /\ tasks'[t].msgs = <<>>
             /\ tasks'[t].calls = <<>>
             /\ tasks'[t].api = <<>>]_vars

\* A request without flag for a user who is in the file of an allowed group,
\* with notices and auto-approve enabled: nothing was done.
C12_Witness ==
    \E t \in Slots :
        /\ tasks[t].pc = "done"
        /\ Classify(tasks[t].ev) = "request"
        /\ tasks[t].ev.flag.tag = "none"
        /\ tasks[t].ev.user_id.tag # "none"
        /\ InScope(tasks[t].ev)
        /\ config.notice_enabled
        /\ config.auto_approve_enabled
        /\ Str(tasks[t].ev.user_id)
             \in PersistedSet(files, EventGroupId(tasks[t].ev))
        /\ tasks[t].calls = <<>>
        /\ tasks[t].msgs = <<>>

(***************************************************************************)
(* C13: a leave notice whose payload has no group id is handled for the    *)
(* enclosing message's group, whereas a join request whose payload has no  *)
(* group id is dropped (no adapter call, no message) even when the         *)
(* enclosing message has a group id.                                       *)
(***************************************************************************)
\* The payload has no group id, the enclosing message has one, and that
\* group is in scope.
OnlyMessageGroup(ev) ==
    /\ ev.group_id.tag = "none"
    /\ ev.msg_group_id # ""
    /\ config.enforce_whitelist => ev.msg_group_id \in config.group_whitelist

LeaveFallsBack ==
    \A t \in Slots :
        LET ev == tasks'[t].ev IN
        /\ Starts(t)
        /\ Classify(ev) = "leave"
        /\ OnlyMessageGroup(ev)
        /\ Truthy(ev.user_id)
        /\ tasks'[t].write \in {"ok", "none"}
        => Str(ev.user_id) \in PersistedSet(files', ev.msg_group_id)

C13_OnlyLeaveFallsBack ==
    /\ [][LeaveFallsBack]_vars
    /\ [](\A t \in Slots :
            /\ tasks[t].pc # "idle"
            /\ Classify(tasks[t].ev) = "request"
            /\ tasks[t].ev.group_id.tag = "none"
            => /\ tasks[t].calls = <<>>
               /\ tasks[t].api = <<>>
               /\ tasks[t].msgs = <<>>)

(***************************************************************************)
(* C13 as amended: the fallback is the same in both handlers: a leave      *)
(* notice and a join request whose payload has no group id are both        *)
(* handled for the enclosing message's group; the join request is rejected *)
(* if its user is in that group's blacklist as loaded (in the file, the    *)
(* read not having failed) and approved if not and auto-approve is         *)
(* enabled.                                                                *)
(***************************************************************************)
RequestFallsBack ==
    \A t \in Slots :
        LET ev == tasks'[t].ev IN
        /\ Starts(t)
        /\ Classify(ev) = "request"
        /\ OnlyMessageGroup(ev)
        /\ Truthy(ev.user_id)
        /\ Truthy(ev.flag)
        => tasks'[t].calls =
             IF /\ Str(ev.user_id) \in PersistedSet(files, ev.msg_group_id)
                /\ tasks'[t].read # "read_error"
                 THEN <<Call(ev.flag, EventSubType(ev), FALSE)>>
             ELSE IF config.auto_approve_enabled
                 THEN <<Call(ev.flag, EventSubType(ev), TRUE)>>
             ELSE <<>>

C13_BothFallBack == [][LeaveFallsBack /\ RequestFallsBack]_vars

\* A join request without group id in its payload, rejected because its
\* user is in the file of the enclosing message's group.
C13_Witness ==
    \E t \in Slots :
        /\ tasks[t].pc = "done"
        /\ Classify(tasks[t].ev) = "request"
        /\ OnlyMessageGroup(tasks[t].ev)
        /\ Str(tasks[t].ev.user_id)
             \in PersistedSet(files, tasks[t].ev.msg_group_id)
        /\ tasks[t].calls # <<>>
        /\ ~tasks[t].calls[1].approve

(***************************************************************************)
(* C14: no handler ends by an exception, whatever the blacklist file       *)
(* holds, whatever the read and the save meet (the creation of the group's *)
(* directory failing included) and whether call_action returns or fails.   *)
(* A handler interrupted in its await (cancelled) is not counted: that is  *)
(* no failure of the blacklist file or of the adapter.                     *)
(***************************************************************************)
Interrupted(task) ==
    /\ task.pc = "raised"
    /\ Len(task.api) = 1
    /\ task.success = <<>>

C14_NoHandlerRaises ==
    \A t \in Slots : tasks[t].pc = "raised" => Interrupted(tasks[t])

(***************************************************************************)
(* C15: when a group's blacklist file does not exist or cannot be parsed   *)
(* (or cannot be read), _load_blacklist returns the empty set,             *)
(* _in_blacklist is False for every user, and a well-formed, in-scope join *)
(* request for that group is not rejected: it is approved if auto-approve  *)
(* is enabled and otherwise makes no adapter call.                         *)
(***************************************************************************)
Unreadable(fs, group_id) == fs[group_id].kind \in {"absent", "corrupt"}

C15_LoadFailsOpen ==
    /\ [](\A g \in GroupIds, read \in ReadOutcomes :
            Unreadable(files, g) \/ read = "read_error"
                => /\ LoadBlacklist(files, g, read) = {}
                   /\ \A u \in UserIds : ~InBlacklist(files, g, u, read))
    /\ [][\A t \in Slots :
            LET ev == tasks'[t].ev IN
            /\ Starts(t)
            /\ WellFormedRequest(ev)
            /\ InScope(ev)
            /\ \/ Unreadable(files, EventGroupId(ev))
               \/ tasks'[t].read = "read_error"
            => /\ ~tasks'[t].listed
               /\ tasks'[t].calls =
                    IF config.auto_approve_enabled
                    THEN <<Call(ev.flag, EventSubType(ev), TRUE)>>
                    ELSE <<>>]_vars

\* A join request approved while the group's file, left by an interrupted
\* save, cannot be parsed.
C15_Witness ==
    \E t \in Slots :
        /\ tasks[t].pc = "done"
        /\ WellFormedRequest(tasks[t].ev)
        /\ InScope(tasks[t].ev)
        /\ files[EventGroupId(tasks[t].ev)] = Corrupt
        /\ Len(tasks[t].calls) = 1
        /\ tasks[t].calls[1].approve

(***************************************************************************)
(* C16: a handler calls _process_group_request at most once and            *)
(* call_action at most once; it calls neither for a leave notice and for   *)
(* an ignored event; and for a join request whose user is not in the       *)
(* blacklist while auto-approve is disabled it calls neither and yields no *)
(* message.                                                                *)
(***************************************************************************)
C16_AtMostOneAdapterCall ==
    /\ [][ListedIsMembership]_vars
    /\ [](\A t \in Slots :
            /\ Len(tasks[t].calls) <= 1
            /\ Len(tasks[t].api) <= 1
            /\ Classify(tasks[t].ev) \in {"leave", "ignore"}
                 => tasks[t].calls = <<>> /\ tasks[t].api = <<>>
            /\ UnlistedRequest(tasks[t]) /\ ~config.auto_approve_enabled
                 => /\ tasks[t].calls = <<>>
                    /\ tasks[t].api = <<>>
                    /\ tasks[t].msgs = <<>>
                    /\ tasks[t].pc = "done")

\* A join request of a user who is not blacklisted, auto-approve disabled
\* and notices enabled: nothing called, nothing yielded.
C16_Witness ==
    \E t \in Slots :
        /\ UnlistedRequest(tasks[t])
        /\ ~config.auto_approve_enabled
        /\ config.notice_enabled
        /\ AdapterSupported(tasks[t].ev)
        /\ tasks[t].pc = "done"
        /\ tasks[t].calls = <<>>
        /\ tasks[t].msgs = <<>>

(***************************************************************************)
(* C17: a step changes the persisted blacklist of a group G only when it   *)
(* starts the handler of a well-formed, in-scope leave notice for (G, U),  *)
(* and the set of G afterwards is the set before plus U; the sets of the   *)
(* other groups, and every set under the handling of a join request or of  *)
(* an ignored event, stay as they were.                                    *)
(***************************************************************************)
C17_OnlyLeaveAddsOnlyItsUser ==
    [][\A g \in GroupIds :
         PersistedSet(files', g) # PersistedSet(files, g)
            => \E t \in Slots :
                 LET ev == tasks'[t].ev IN
                 /\ Starts(t)
                 /\ WellFormedLeave(ev)
                 /\ InScope(ev)
                 /\ EventGroupId(ev) = g
                 /\ PersistedSet(files', g)
                      = PersistedSet(files, g) \cup {Str(ev.user_id)}]_vars

(***************************************************************************)
(* C18: with handlers interleaved at their suspensions only, no addition   *)
(* is lost, given no I/O failure.  The handler of a well-formed, in-scope  *)
(* leave notice for (G, U) whose read and save did not fail adds U to what *)
(* G's file held, in the step in which it starts (no other handler's step  *)
(* comes between its load and its save); and while no read and no save of  *)
(* the batch has failed, every user with such a notice handled is in G's   *)
(* persisted blacklist, so also once all handlers have completed.          *)
(***************************************************************************)
NoIOFailed ==
    \A t \in Slots :
        /\ tasks[t].read \in {"ok", "none"}
        /\ tasks[t].write \in {"ok", "none"}

C18_NoAdditionLost ==
    /\ [][\A t \in Slots :
            LET ev == tasks'[t].ev IN
            /\ Starts(t)
            /\ WellFormedLeave(ev)
            /\ InScope(ev)
            /\ tasks'[t].read \in {"ok", "none"}
            /\ tasks'[t].write \in {"ok", "none"}
            => PersistedSet(files', EventGroupId(ev))
                 = PersistedSet(files, EventGroupId(ev)) \cup {EventUserId(ev)}]_vars
    /\ [](NoIOFailed
            => \A t \in Slots :
                 /\ tasks[t].pc # "idle"
                 /\ WellFormedLeave(tasks[t].ev)
                 /\ InScope(tasks[t].ev)
                 => EventUserId(tasks[t].ev)
                      \in PersistedSet(files, EventGroupId(tasks[t].ev)))

\* Two leave notices for the same group and two users: the second handler
\* started and completed while the first is still suspended at its notice,
\* and both users are persisted.
C18_Witness ==
    \E t1, t2 \in Slots :
        /\ t1 < t2
        /\ tasks[t1].pc = "yielded" /\ tasks[t2].pc = "done"
        /\ tasks[t2].msgs # <<>>
        /\ WellFormedLeave(tasks[t1].ev) /\ WellFormedLeave(tasks[t2].ev)
        /\ EventGroupId(tasks[t1].ev) = EventGroupId(tasks[t2].ev)
        /\ EventUserId(tasks[t1].ev) # EventUserId(tasks[t2].ev)
        /\ NoIOFailed
        /\ PersistedSet(files, EventGroupId(tasks[t1].ev))
             = {EventUserId(tasks[t1].ev), EventUserId(tasks[t2].ev)}

(***************************************************************************)
(* C19: a blacklisted user is never auto-approved.  In the step in which a *)
(* handler gives call_action a payload with approve = True for (G, U), U   *)
(* is not in G's persisted blacklist, before the step and after it, also   *)
(* when the handler of a leave notice for (G, U) is in flight.             *)
(***************************************************************************)
IssuesApprove(t) ==
    /\ Len(tasks'[t].api) = Len(tasks[t].api) + 1
    /\ tasks'[t].api[Len(tasks'[t].api)].approve

C19_BlacklistedNeverApproved ==
    [][\A t \in Slots :
         IssuesApprove(t)
            => /\ EventUserId(tasks'[t].ev)
                    \notin PersistedSet(files, EventGroupId(tasks'[t].ev))
               /\ EventUserId(tasks'[t].ev)
                    \notin PersistedSet(files', EventGroupId(tasks'[t].ev))]_vars

(***************************************************************************)
(* C19 as amended: a user who is blacklisted as the handler loads the      *)
(* blacklist is never auto-approved.  In the step in which a handler gives *)
(* call_action a payload with approve = True for (G, U), either U is not   *)
(* in G's persisted blacklist or the handler's read of G's file failed     *)
(* (the load fails open); the step is the one in which the handler loaded  *)
(* the blacklist and it changes no file, also when the handler of a leave  *)
(* notice for (G, U) is in flight.  A handler whose read did not fail      *)
(* rejects a user who is in the persisted blacklist.                       *)
(***************************************************************************)
C19_ApprovedOnlyWhenLoadedWithoutUser ==
    [][\A t \in Slots :
         LET ev == tasks'[t].ev
             persisted == EventUserId(ev) \in PersistedSet(files, EventGroupId(ev))
         IN
         /\ IssuesApprove(t)
              => /\ Starts(t)
                 /\ files' = files
                 /\ ~persisted \/ tasks'[t].read = "read_error"
         /\ /\ Starts(t)
            /\ WellFormedRequest(ev)
            /\ InScope(ev)
            /\ persisted
            /\ tasks'[t].read # "read_error"
            => tasks'[t].calls = <<Call(ev.flag, EventSubType(ev), FALSE)>>]_vars

\* A join request of U for G suspended in its approve call while the handler
\* of a leave notice for the same (G, U), started after it, is suspended at
\* its notice: U has been blacklisted since the approve call was issued.
C19_Witness ==
    \E t1, t2 \in Slots :
        /\ t1 < t2
        /\ tasks[t1].pc = "await_approve"
        /\ tasks[t1].read \in {"ok", "none"}
        /\ tasks[t1].api # <<>> /\ tasks[t1].api[1].approve
        /\ tasks[t2].pc = "yielded"
        /\ WellFormedLeave(tasks[t2].ev)
        /\ EventGroupId(tasks[t1].ev) = EventGroupId(tasks[t2].ev)
        /\ EventUserId(tasks[t1].ev) = EventUserId(tasks[t2].ev)
        /\ EventUserId(tasks[t1].ev)
             \in PersistedSet(files, EventGroupId(tasks[t1].ev))

====
